---- MODULE Spec2Model ----
(***************************************************************************)
(* sigcpp::array<T, N> (include/array.h) and the test driver's command     *)
(* line processing (test/driver.cpp).                                      *)
(*                                                                         *)
(* Spec     : two instances a and b of array<T, N> and the member          *)
(*            functions called on them.                                    *)
(* SpecIter : a cursor walking begin()..end() or rbegin()..rend().         *)
(* SpecDrv  : processCmdLine, statement by statement; FairDrv is SpecDrv   *)
(*            with the program never stopping while it has a next step.    *)
(*                                                                         *)
(* An array's storage `values` is a sequence of length N; the C++ index    *)
(* pos (0-based) is position pos + 1 of the sequence.  A pointer into the  *)
(* storage is [base, off]; a reference to an element is its index.         *)
(***************************************************************************)
EXTENDS Integers, Sequences, FiniteSets, TLC

VARIABLES
    N,        \* the template parameter N of array<T, N>
    a,        \* a.values
    b,        \* b.values
    last,     \* the last member call on a: its arguments and what it gave
    cur       \* the cursor of the traversal in progress

avars == <<N, a, b, last, cur>>

VARIABLES
    arguments,            \* processCmdLine: the argument vector (argv[0] first)
    pc,                   \* processCmdLine: the statement about to run
    i,                    \* the option loop's index
    printHeader, printSummary, headerText, passReportMode, failThreshold,
    fileOpenMode, outputFilename,
    filenameNoExtension,  \* what $exe expands to
    macroPosition,        \* where the last find("$exe") found it, or npos
    reads,                \* the indices the option loop has read arguments at
    tester                \* what the set...() calls have given the tester

dvars == <<arguments, pc, i, printHeader, printSummary, headerText,
           passReportMode, failThreshold, fileOpenMode, outputFilename,
           filenameNoExtension, macroPosition, reads, tester>>

vars == <<avars, dvars>>

-----------------------------------------------------------------------------
(* Bounds *)

MaxN == 3

\* the element type T: two distinguishable values are enough to tell
\* elements apart
T == {"x", "y"}

NoValue == "-"

-----------------------------------------------------------------------------
(* array.h *)

Arrays(n) == [1..n -> T]

\* std::fill_n(first, n, u): assigns u to the n elements starting at first
RECURSIVE fill_n(_, _, _)
fill_n(vals, n, u) ==
    IF n = 0 THEN vals
    ELSE [fill_n(vals, n - 1, u) EXCEPT ![n] = u]

fill_skips_last(vals, u) == IF N = 0 THEN vals ELSE fill_n(vals, N - 1, u)

\* void fill(const T& u) { std::fill_n(values, N, u); }
fill(vals, u) == fill_n(vals, N, u)

\* std::swap_ranges(first1, last1, first2): swaps element k of the first
\* range with element k of the second, for each k; gives both ranges
RECURSIVE swap_ranges(_, _, _)
swap_ranges(x, y, n) ==
    IF n = 0 THEN <<x, y>>
    ELSE LET r == swap_ranges(x, y, n - 1)
         IN  <<[r[1] EXCEPT ![n] = y[n]], [r[2] EXCEPT ![n] = x[n]]>>

swap_copies_only(x, y) == <<y, y>>

\* void swap(array& a) { std::swap_ranges(values, values + N, a.values); }
swap(x, y) == swap_ranges(x, y, N)

\* capacity
empty == N = 0
size_off_by_one == IF N = 0 THEN 0 ELSE N - 1
size == N
max_size == N

\* a pointer into values, and the null pointer
Ptr(off) == [base |-> "values", off |-> off]
nullptr == [base |-> "null", off |-> 0]

\* array_iterator<pointer>: the default-constructed iterator is the canonical
\* empty position; iterator(p) wraps the position p
iterator_default == nullptr
iterator(p) == p

begin == IF N = 0 THEN iterator_default ELSE iterator(Ptr(0))
end_one_short == IF N = 0 THEN iterator_default ELSE iterator(Ptr(N - 1))
end == IF N = 0 THEN iterator_default ELSE iterator(Ptr(N))
cbegin == begin
cend == end

\* array_iterator: ++it, --it, ==, and the index of the element *it refers to
it_inc(p) == [p EXCEPT !.off = @ + 1]
it_dec(p) == [p EXCEPT !.off = @ - 1]
it_eq(p, q) == p = q
RECURSIVE it_plus(_, _)
it_plus(p, k) == IF k = 0 THEN p ELSE it_inc(it_plus(p, k - 1))
it_deref(p) == p.off

\* std::reverse_iterator<iterator>: holds a forward iterator; ++ moves it
\* backward, * is the element just before it, == compares the forward iterators
reverse_iterator(p) == [current |-> p]
rit_inc(r) == [current |-> it_dec(r.current)]
rit_eq(r, s) == it_eq(r.current, s.current)
rit_deref(r) == it_deref(it_dec(r.current))

rbegin == reverse_iterator(end)
rend == reverse_iterator(begin)
crbegin == rbegin
crend == rend

\* what an element access gives: a reference to element idx, or a thrown
\* exception object of the given type
Ref(idx) == [outcome |-> "ref", idx |-> idx, type |-> "T&", what |-> ""]
Throw(type, what) == [outcome |-> "throw", idx |-> -1, type |-> type, what |-> what]

\* reference operator[](size_type pos) { return values[pos]; }
\* (pos >= N is undefined: the actions call it with pos < N only)
subscript(pos) == Ref(pos)

at_reads_neighbour(pos) ==
    IF pos < N THEN Ref(IF pos + 1 < N THEN pos + 1 ELSE pos)
    ELSE Throw("std::out_of_range*", "array index out of range")

\* reference at(size_type pos): `throw new std::out_of_range(...)` throws the
\* pointer the new-expression yields
at(pos) ==
    IF pos < N THEN Ref(pos)
    ELSE Throw("std::out_of_range*", "array index out of range")

\* reference front() { return values[0]; }
front == Ref(0)

back_via_at == at(N)

\* reference back() { return empty() ? front() : values[N-1]; }
back == IF empty THEN front ELSE Ref(N - 1)

data_never_null == Ptr(0)
data == IF N = 0 THEN nullptr ELSE Ptr(0)

\* a handler `catch (const H&)` catches a thrown object of type H or of a
\* class derived from H; a thrown pointer is caught by pointer handlers only
Bases(type) ==
    CASE type = "std::out_of_range" ->
             {"std::out_of_range", "std::logic_error", "std::exception"}
      [] type = "std::out_of_range*" ->
             {"std::out_of_range*", "std::logic_error*", "std::exception*"}
      [] OTHER -> {type}
Catches(handler, type) == handler \in Bases(type)

Handlers == {"std::out_of_range", "std::exception", "std::out_of_range*"}

-----------------------------------------------------------------------------
(* driver.cpp: strings are sequences of characters, positions are 0-based *)

npos == -1

\* s.find(pat): the first position at which pat occurs in s, or npos
Occurs(s, pat, p) == p + Len(pat) <= Len(s) /\ SubSeq(s, p + 1, p + Len(pat)) = pat
find(s, pat) ==
    IF \E p \in 0..Len(s) : Occurs(s, pat, p)
    THEN CHOOSE p \in 0..Len(s) :
             Occurs(s, pat, p) /\ \A q \in 0..(p - 1) : ~Occurs(s, pat, q)
    ELSE npos

\* s.replace(pos, len, r): s with the len characters from pos replaced by r
replace(s, pos, len, r) ==
    SubSeq(s, 1, pos) \o r \o SubSeq(s, pos + len + 1, Len(s))

\* the last position (1-based) of character c in s, 0 if none
LastOf(s, c) ==
    IF \E k \in 1..Len(s) : s[k] = c
    THEN CHOOSE k \in 1..Len(s) : s[k] = c /\ \A m \in (k + 1)..Len(s) : s[m] # c
    ELSE 0

\* path::filename(): what follows the last directory separator
filename(p) == SubSeq(p, LastOf(p, "/") + 1, Len(p))

\* path::extension(): from the last dot of the filename, unless the filename
\* is "." or ".." or that dot is its first character
extension(p) ==
    LET f == filename(p)
        d == LastOf(f, ".")
    IN  IF d <= 1 \/ f = <<".", ".">> THEN <<>> ELSE SubSeq(f, d, Len(f))

\* path::replace_extension(e): the path with its extension replaced by e
replace_extension(p, e) == SubSeq(p, 1, Len(p) - Len(extension(p))) \o e

\* std::from_chars(first, last, value) for unsigned short: the longest run
\* of leading digits; value is left alone if there is none or it overflows
DigitValue(c) ==
    CASE c = "0" -> 0 [] c = "1" -> 1 [] c = "2" -> 2 [] c = "3" -> 3
      [] c = "4" -> 4 [] c = "5" -> 5 [] c = "6" -> 6 [] c = "7" -> 7
      [] c = "8" -> 8 [] c = "9" -> 9 [] OTHER -> -1
RECURSIVE from_chars(_, _, _, _)
from_chars(v, k, acc, value) ==
    IF k > Len(v) \/ DigitValue(v[k]) < 0
    THEN (IF k = 1 \/ acc > 65535 THEN value ELSE acc)
    ELSE from_chars(v, k + 1, IF acc > 65535 THEN acc ELSE acc * 10 + DigitValue(v[k]), value)

\* the literals of driver.cpp
macro == <<"$", "e", "x", "e">>
defaultHeaderText == <<"R", "u", "n", "n", "i", "n", "g", " ">> \o macro
opt_h == <<"-", "h">>
opt_ht == <<"-", "h", "t">>
opt_p == <<"-", "p">>
opt_s == <<"-", "s">>
opt_t == <<"-", "t">>
opt_f == <<"-", "f">>
opt_fo == <<"-", "f", "o">>
opt_fa == <<"-", "f", "a">>
str_no == <<"n", "o">>
str_auto == <<"a", "u", "t", "o">>
str_detail == <<"d", "e", "t", "a", "i", "l">>
str_indicate == <<"i", "n", "d", "i", "c", "a", "t", "e">>
str_none == <<"n", "o", "n", "e">>
ext_out == <<".", "o", "u", "t">>

Options == {opt_h, opt_ht, opt_p, opt_s, opt_t, opt_f, opt_fo, opt_fa}

\* the command lines tried: argv[0] and up to MaxArgs further arguments
MaxArgs == 3
\* std::string::max_size(), shrunk: replace() throws std::length_error beyond it
MaxStr == 20

ExePool ==
    { <<"t">>,
      <<".", "/", "t", ".", "x">>,
      macro,
      <<"b", "/", "a">> \o macro \o <<".", "x">> }

ArgPool ==
    { opt_h, opt_ht, opt_p, opt_s, opt_t, opt_f, opt_fa,
      str_no, str_detail, macro, <<"7">> }

NoTester ==
    [passReportMode |-> "unset", failThreshold |-> 0, headerText |-> <<>>,
     output |-> "unset", outputFilePath |-> <<>>]

DriverIdle ==
    /\ arguments = <<>> /\ pc = "off" /\ i = 0
    /\ printHeader = TRUE /\ printSummary = TRUE
    /\ headerText = <<>> /\ passReportMode = <<>> /\ failThreshold = 0
    /\ fileOpenMode = <<>> /\ outputFilename = <<>>
    /\ filenameNoExtension = <<>> /\ macroPosition = npos /\ reads = {}
    /\ tester = NoTester

-----------------------------------------------------------------------------
(* The member calls on a (and b), as actions *)

NoObs ==
    [empty |-> FALSE, size |-> -1, max_size |-> -1, data |-> Ptr(-1),
     begin |-> Ptr(-1), end |-> Ptr(-1), cbegin |-> Ptr(-1), cend |-> Ptr(-1),
     fwd_eq |-> FALSE, cfwd_eq |-> FALSE, rev_eq |-> FALSE, crev_eq |-> FALSE]

\* the record of a call: op(pos) or op(val), what it gave (r), the caller's
\* handler and whether it caught what was thrown, a and b before the call
Call(op, pos, val, r, handler) ==
    [op |-> op, pos |-> pos, val |-> val, outcome |-> r.outcome,
     idx |-> r.idx, type |-> r.type, what |-> r.what, handler |-> handler,
     caught |-> r.outcome = "throw" /\ Catches(handler, r.type),
     before |-> a, other |-> b, obs |-> NoObs]

\* the value read through what an access gave
Deref(vals, r) == IF r.outcome = "ref" THEN vals[r.idx + 1] ELSE NoValue

\* vals after writing v through what an access gave
Assign(vals, r, v) == IF r.outcome = "ref" THEN [vals EXCEPT ![r.idx + 1] = v] ELSE vals

Done(op, val) == Call(op, -1, val, [outcome |-> "ok", idx |-> -1, type |-> "", what |-> ""], "")

NoCur == [mode |-> "none", fwd |-> nullptr, rev |-> reverse_iterator(nullptr), visited |-> <<>>]

Init ==
    /\ N \in 0..MaxN
    /\ a \in Arrays(N)
    /\ b \in Arrays(N)
    /\ last = Done("construct", NoValue)
    /\ cur = NoCur
    /\ DriverIdle

\* a.fill(u)
Fill ==
    \E u \in T :
        /\ a' = fill(a, u)
        /\ last' = Done("fill", u)
        /\ UNCHANGED <<N, b, cur, dvars>>

\* a.swap(b)
Swap ==
    /\ a' = swap(a, b)[1]
    /\ b' = swap(a, b)[2]
    /\ last' = Done("swap", NoValue)
    /\ UNCHANGED <<N, cur, dvars>>

\* try { x = a.at(pos); } catch (const handler&) { }
ReadAt ==
    \E pos \in 0..(N + 1), h \in Handlers :
        LET r == at(pos) IN
        /\ last' = Call("at", pos, Deref(a, r), r, h)
        /\ UNCHANGED <<N, a, b, cur, dvars>>

\* try { a.at(pos) = v; } catch (const handler&) { }
WriteAt ==
    \E pos \in 0..(N + 1), v \in T, h \in Handlers :
        LET r == at(pos) IN
        /\ a' = Assign(a, r, v)
        /\ last' = Call("at=", pos, v, r, h)
        /\ UNCHANGED <<N, b, cur, dvars>>

\* x = a[pos], with pos < N as operator[] requires
ReadSubscript ==
    \E pos \in 0..(N - 1) :
        LET r == subscript(pos) IN
        /\ last' = Call("[]", pos, Deref(a, r), r, "")
        /\ UNCHANGED <<N, a, b, cur, dvars>>

\* a[pos] = v, with pos < N as operator[] requires
WriteSubscript ==
    \E pos \in 0..(N - 1), v \in T :
        LET r == subscript(pos) IN
        /\ a' = Assign(a, r, v)
        /\ last' = Call("[]=", pos, v, r, "")
        /\ UNCHANGED <<N, b, cur, dvars>>

\* x = a.front(), x = a.back(), with N > 0 as both require
ReadFrontBack ==
    /\ N > 0
    /\ \E f \in {"front", "back"} :
           LET r == IF f = "front" THEN front ELSE back IN
           last' = Call(f, -1, Deref(a, r), r, "")
    /\ UNCHANGED <<N, a, b, cur, dvars>>

\* a.empty(), a.size(), a.max_size(), a.data() and the iterator pairs
Observe ==
    /\ last' = [Done("observe", NoValue) EXCEPT
                   !.obs = [empty |-> empty, size |-> size, max_size |-> max_size,
                             data |-> data,
                             begin |-> begin, end |-> end,
                             cbegin |-> cbegin, cend |-> cend,
                             fwd_eq |-> it_eq(begin, end),
                             cfwd_eq |-> it_eq(cbegin, cend),
                             rev_eq |-> rit_eq(rbegin, rend),
                             crev_eq |-> rit_eq(crbegin, crend)]]
    /\ UNCHANGED <<N, a, b, cur, dvars>>

\* *(a.begin() + k) = v, with k < N
WriteIterator ==
    \E k \in 0..(N - 1), v \in T :
        LET p == it_plus(begin, k) IN
        /\ a' = [a EXCEPT ![it_deref(p) + 1] = v]
        /\ last' = Call("*it=", k, v, Ref(it_deref(p)), "")
        /\ UNCHANGED <<N, b, cur, dvars>>

\* auto it = a.begin();
StartForward ==
    /\ cur' = [NoCur EXCEPT !.mode = "fwd", !.fwd = begin]
    /\ UNCHANGED <<N, a, b, last, dvars>>

\* for (; it != a.end(); ++it) { visit(*it); [*it = v;] }
StepForward ==
    /\ cur.mode = "fwd"
    /\ ~it_eq(cur.fwd, end)
    /\ cur' = [cur EXCEPT !.visited = Append(@, it_deref(cur.fwd)),
                          !.fwd = it_inc(@)]
    /\ \E v \in T \cup {NoValue} :
           a' = IF v = NoValue THEN a ELSE [a EXCEPT ![it_deref(cur.fwd) + 1] = v]
    /\ UNCHANGED <<N, b, last, dvars>>

\* the forward loop's exit
EndForward ==
    /\ cur.mode = "fwd"
    /\ it_eq(cur.fwd, end)
    /\ cur' = [cur EXCEPT !.mode = "fwd-done"]
    /\ UNCHANGED <<N, a, b, last, dvars>>

\* auto rit = a.rbegin();
StartReverse ==
    /\ cur' = [NoCur EXCEPT !.mode = "rev", !.rev = rbegin]
    /\ UNCHANGED <<N, a, b, last, dvars>>

\* for (; rit != a.rend(); ++rit) visit(*rit);
StepReverse ==
    /\ cur.mode = "rev"
    /\ ~rit_eq(cur.rev, rend)
    /\ cur' = [cur EXCEPT !.visited = Append(@, rit_deref(cur.rev)),
                          !.rev = rit_inc(@)]
    /\ UNCHANGED <<N, a, b, last, dvars>>

\* the reverse loop's exit
EndReverse ==
    /\ cur.mode = "rev"
    /\ rit_eq(cur.rev, rend)
    /\ cur' = [cur EXCEPT !.mode = "rev-done"]
    /\ UNCHANGED <<N, a, b, last, dvars>>

Next ==
    \/ Fill
    \/ Swap
    \/ ReadAt
    \/ WriteAt
    \/ ReadSubscript
    \/ WriteSubscript
    \/ WriteIterator
    \/ ReadFrontBack
    \/ Observe

Spec == Init /\ [][Next]_vars

\* the traversals, with writes through the cursor and fill() between steps
NextIter ==
    \/ Fill
    \/ StartForward
    \/ StepForward
    \/ EndForward
    \/ StartReverse
    \/ StepReverse
    \/ EndReverse

SpecIter == Init /\ [][NextIter]_vars

-----------------------------------------------------------------------------
(* processCmdLine *)

\* no array is in play while the driver starts up
ArrayIdle ==
    /\ N = 0 /\ a = <<>> /\ b = <<>>
    /\ last = [op |-> "none"] /\ cur = [mode |-> "none"]

ArgVectors == UNION {[1..n -> ArgPool] : n \in 0..MaxArgs}

\* main() has copied argv into arguments; processCmdLine's locals are
\* initialised (lines 46-52) and the option loop is about to start (i = 1)
InitDrv ==
    /\ ArrayIdle
    /\ \E exe \in ExePool, rest \in ArgVectors : arguments = <<exe>> \o rest
    /\ pc = "parse" /\ i = 1
    /\ printHeader = TRUE /\ printSummary = TRUE
    /\ headerText = defaultHeaderText /\ passReportMode = str_auto
    /\ failThreshold = 0 /\ fileOpenMode = <<>> /\ outputFilename = <<>>
    /\ filenameNoExtension = <<>> /\ macroPosition = npos /\ reads = {}
    /\ tester = NoTester

\* arguments[k], for k < arguments.size()
Arg(k) == arguments[k + 1]

\* what the option at arguments[i] does with the value v read at arguments[i + 1]
ApplyOption(opt, v) ==
    /\ printHeader' = IF opt = opt_h THEN v # str_no ELSE printHeader
    /\ headerText' = IF opt = opt_ht THEN v ELSE headerText
    /\ passReportMode' = IF opt = opt_p THEN v ELSE passReportMode
    /\ printSummary' = IF opt = opt_s THEN v # str_no ELSE printSummary
    /\ failThreshold' = IF opt = opt_t THEN from_chars(v, 1, 0, failThreshold) ELSE failThreshold
    /\ tester' = IF opt = opt_t
                 THEN [tester EXCEPT !.failThreshold = from_chars(v, 1, 0, failThreshold)]
                 ELSE tester
    /\ fileOpenMode' = IF opt \in {opt_f, opt_fo, opt_fa} THEN opt ELSE fileOpenMode
    /\ outputFilename' = IF opt \in {opt_f, opt_fo, opt_fa} THEN v ELSE outputFilename

\* one pass of the option loop (lines 55-76).  arguments[i] is read; if it is
\* an option, arguments[i + 1] is read too, with no check of i + 1 against
\* arguments.size().  A read at arguments.size() is undefined: it yields some
\* string, or the program dies.
ParseOption ==
    /\ pc = "parse"
    /\ i < Len(arguments)
    /\ LET opt == Arg(i) IN
       IF opt \notin Options
       THEN /\ reads' = reads \cup {i}
            /\ i' = i + 2
            /\ UNCHANGED <<pc, printHeader, printSummary, headerText, passReportMode,
                           failThreshold, fileOpenMode, outputFilename, tester>>
       ELSE /\ reads' = reads \cup {i, i + 1}
            /\ IF i + 1 < Len(arguments)
               THEN /\ ApplyOption(opt, Arg(i + 1))
                    /\ i' = i + 2
                    /\ pc' = pc
               ELSE \/ /\ \E v \in ArgPool \cup {<<>>} : ApplyOption(opt, v)
                       /\ i' = i + 2
                       /\ pc' = pc
                    \/ /\ pc' = "crashed"
                       /\ UNCHANGED <<i, printHeader, printSummary, headerText,
                                      passReportMode, failThreshold, fileOpenMode,
                                      outputFilename, tester>>
    /\ UNCHANGED <<arguments, filenameNoExtension, macroPosition, avars>>

\* the option loop's exit, setPassReportMode (lines 78-90) and the name $exe
\* stands for (lines 94-95)
SelectReportMode ==
    /\ pc = "parse"
    /\ i >= Len(arguments)
    /\ tester' = [tester EXCEPT !.passReportMode =
                     CASE passReportMode = str_detail -> "detail"
                       [] passReportMode = str_indicate -> "indicate"
                       [] passReportMode = str_none -> "none"
                       [] passReportMode = str_auto ->
                              (IF fileOpenMode = <<>> THEN "none" ELSE "indicate")
                       [] OTHER -> @]
    /\ filenameNoExtension' = filename(replace_extension(Arg(0), <<>>))
    /\ pc' = "expand-header"
    /\ UNCHANGED <<arguments, i, printHeader, printSummary, headerText, passReportMode,
                   failThreshold, fileOpenMode, outputFilename, macroPosition, reads, avars>>

\* lines 98-100 and 104-105: the first find, or the header text dropped
ExpandHeader ==
    /\ pc = "expand-header"
    /\ IF printHeader /\ headerText # <<>>
       THEN /\ macroPosition' = find(headerText, macro)
            /\ pc' = "header-test"
            /\ UNCHANGED headerText
       ELSE /\ headerText' = <<>>
            /\ pc' = "set-header"
            /\ UNCHANGED macroPosition
    /\ UNCHANGED <<arguments, i, printHeader, printSummary, passReportMode, failThreshold,
                   fileOpenMode, outputFilename, filenameNoExtension, reads, tester, avars>>

\* line 101: the for loop's condition, macroPosition != npos
HeaderTest ==
    /\ pc = "header-test"
    /\ pc' = IF macroPosition # npos THEN "header-replace" ELSE "set-header"
    /\ UNCHANGED <<arguments, i, printHeader, printSummary, headerText, passReportMode,
                   failThreshold, fileOpenMode, outputFilename, filenameNoExtension,
                   macroPosition, reads, tester, avars>>

\* line 102: headerText.replace(macroPosition, 4, filenameNoExtension); a
\* result longer than max_size() throws std::length_error, which nothing catches
HeaderReplace ==
    /\ pc = "header-replace"
    /\ LET r == replace(headerText, macroPosition, 4, filenameNoExtension) IN
       IF Len(r) > MaxStr
       THEN pc' = "terminated" /\ UNCHANGED headerText
       ELSE pc' = "header-find" /\ headerText' = r
    /\ UNCHANGED <<arguments, i, printHeader, printSummary, passReportMode, failThreshold,
                   fileOpenMode, outputFilename, filenameNoExtension, macroPosition,
                   reads, tester, avars>>

\* line 101: the for loop's step, macroPosition = headerText.find("$exe")
HeaderFind ==
    /\ pc = "header-find"
    /\ macroPosition' = find(headerText, macro)
    /\ pc' = "header-test"
    /\ UNCHANGED <<arguments, i, printHeader, printSummary, headerText, passReportMode,
                   failThreshold, fileOpenMode, outputFilename, filenameNoExtension,
                   reads, tester, avars>>

\* lines 107-111: setHeaderText, and the first find in the output file name
SetHeader ==
    /\ pc = "set-header"
    /\ tester' = [tester EXCEPT !.headerText = headerText]
    /\ IF outputFilename # <<>>
       THEN macroPosition' = find(outputFilename, macro) /\ pc' = "file-test"
       ELSE UNCHANGED macroPosition /\ pc' = "open-output"
    /\ UNCHANGED <<arguments, i, printHeader, printSummary, headerText, passReportMode,
                   failThreshold, fileOpenMode, outputFilename, filenameNoExtension,
                   reads, avars>>

\* line 112: the for loop's condition
FileTest ==
    /\ pc = "file-test"
    /\ pc' = IF macroPosition # npos THEN "file-replace" ELSE "open-output"
    /\ UNCHANGED <<arguments, i, printHeader, printSummary, headerText, passReportMode,
                   failThreshold, fileOpenMode, outputFilename, filenameNoExtension,
                   macroPosition, reads, tester, avars>>

\* line 113: outputFilename.replace(macroPosition, 4, filenameNoExtension)
FileReplace ==
    /\ pc = "file-replace"
    /\ LET r == replace(outputFilename, macroPosition, 4, filenameNoExtension) IN
       IF Len(r) > MaxStr
       THEN pc' = "terminated" /\ UNCHANGED outputFilename
       ELSE pc' = "file-find" /\ outputFilename' = r
    /\ UNCHANGED <<arguments, i, printHeader, printSummary, headerText, passReportMode,
                   failThreshold, fileOpenMode, filenameNoExtension, macroPosition,
                   reads, tester, avars>>

\* line 112: the for loop's step
FileFind ==
    /\ pc = "file-find"
    /\ macroPosition' = find(outputFilename, macro)
    /\ pc' = "file-test"
    /\ UNCHANGED <<arguments, i, printHeader, printSummary, headerText, passReportMode,
                   failThreshold, fileOpenMode, outputFilename, filenameNoExtension,
                   reads, tester, avars>>

\* lines 117-139: the output is std::cout, or the named file (with ".out" if
\* it names no extension), which may exist already or fail to open
OpenOutput ==
    /\ pc = "open-output"
    /\ IF outputFilename = <<>>
       THEN /\ tester' = [tester EXCEPT !.output = "cout"]
            /\ pc' = "run-tests"
       ELSE /\ tester' = [tester EXCEPT
                           !.output = "file",
                           !.outputFilePath =
                               IF extension(outputFilename) = <<>>
                               THEN replace_extension(outputFilename, ext_out)
                               ELSE outputFilename]
            /\ \E exists \in BOOLEAN, opens \in BOOLEAN :
                   pc' = IF fileOpenMode = opt_f /\ exists THEN "file-error"
                         ELSE IF ~opens THEN "file-error"
                         ELSE "run-tests"
    /\ UNCHANGED <<arguments, i, printHeader, printSummary, headerText, passReportMode,
                   failThreshold, fileOpenMode, outputFilename, filenameNoExtension,
                   macroPosition, reads, avars>>

\* lines 141-151: runTests() returns or throws; a std::string is caught, and
\* anything else ends the program; then the summary
RunTests ==
    /\ pc = "run-tests"
    /\ \E thrown \in {"nothing", "std::string", "std::out_of_range*"} :
           pc' = IF Catches("std::string", thrown) \/ thrown = "nothing"
                 THEN "done" ELSE "terminated"
    /\ UNCHANGED <<arguments, i, printHeader, printSummary, headerText, passReportMode,
                   failThreshold, fileOpenMode, outputFilename, filenameNoExtension,
                   macroPosition, reads, tester, avars>>

NextDrv ==
    \/ ParseOption
    \/ SelectReportMode
    \/ ExpandHeader
    \/ HeaderTest
    \/ HeaderReplace
    \/ HeaderFind
    \/ SetHeader
    \/ FileTest
    \/ FileReplace
    \/ FileFind
    \/ OpenOutput
    \/ RunTests

SpecDrv == InitDrv /\ [][NextDrv]_vars

\* the program runs on while it has a statement to run
FairDrv == SpecDrv /\ WF_vars(NextDrv)

-----------------------------------------------------------------------------
(* Properties of processCmdLine *)

\* C9: every read of arguments[i] and arguments[i + 1] by the option loop
\* uses an index less than arguments.size().
C9_ReadsInRange == \A k \in reads : k < Len(arguments)

\* C10: once the expansion of $exe in the header text starts, processCmdLine
\* goes on to runTests(), or stops at an output file it cannot use; and the
\* strings handed on hold no "$exe".
C10_ExpansionTerminates ==
    /\ (pc = "expand-header") ~> (pc \in {"run-tests", "file-error"})
    /\ [](pc = "run-tests" =>
            find(headerText, macro) = npos /\ find(outputFilename, macro) = npos)

-----------------------------------------------------------------------------
(* Properties of array<T, N> *)

AtOps == {"at", "at="}
WriteOps == {"at=", "[]=", "*it="}
ReadOps == {"at", "[]"}

\* C1: at(pos) gives the element at index pos when pos < N, and otherwise
\* throws an exception of kind out_of_range, with a message, that a handler
\* for out_of_range catches.
C1_AtChecked ==
    last.op \in AtOps =>
        IF last.pos < N
        THEN last.outcome = "ref" /\ last.idx = last.pos
        ELSE /\ last.outcome = "throw"
             /\ last.type = "std::out_of_range"
             /\ last.what # ""
             /\ (last.handler = "std::out_of_range" => last.caught)

\* C2: a call that ends in a throw is a call of at with pos outside [0, N),
\* and it leaves every element of a and b, and the number of elements, as
\* they were before the call.
C2_FailureLeavesState ==
    last.outcome = "throw" =>
        /\ last.op \in AtOps
        /\ last.pos >= N
        /\ a = last.before
        /\ b = last.other
        /\ Len(a) = N /\ size = N

C2_Witness ==
    /\ last.op = "at=" /\ last.outcome = "throw"
    /\ N >= 2 /\ last.pos = N /\ \E k \in 1..N : a[k] # last.val

\* C3: for every pos < N, at(pos) and operator[](pos) refer to the same
\* element; a read through either gives the element at pos, and a write
\* through either sets the element at pos and no other.
C3_SameElement ==
    /\ \A pos \in 0..(N - 1) : at(pos) = subscript(pos) /\ at(pos).idx = pos
    /\ (last.op \in ReadOps /\ last.outcome = "ref") =>
           last.val = a[last.pos + 1]
    /\ (last.op \in WriteOps /\ last.outcome = "ref") =>
           a = [last.before EXCEPT ![last.pos + 1] = last.val]

C3_Witness ==
    /\ last.op = "at" /\ last.outcome = "ref" /\ N >= 2 /\ last.pos = 0
    /\ a[1] # a[2]

\* C4: after fill(v) every element of a equals v, whatever a held before;
\* for N = 0 fill changes nothing and does not fail.
C4_Fill ==
    last.op = "fill" =>
        /\ last.outcome = "ok"
        /\ DOMAIN a = 1..N
        /\ \A k \in 1..N : a[k] = last.val
        /\ b = last.other
        /\ (N = 0 => a = last.before)

C4_Witness ==
    /\ last.op = "fill" /\ N >= 2
    /\ \A k \in 1..N : last.before[k] # last.val

\* C5: after a.swap(b), a holds what b held before the call and b holds what
\* a held, index by index; swapping again restores both.
C5_Swap ==
    /\ last.op = "swap" =>
           /\ \A k \in 1..N : a[k] = last.other[k] /\ b[k] = last.before[k]
           /\ DOMAIN a = 1..N /\ DOMAIN b = 1..N
           /\ swap(a, b) = <<last.before, last.other>>
    /\ swap(swap(a, b)[1], swap(a, b)[2]) = <<a, b>>

C5_Witness ==
    /\ last.op = "swap" /\ N >= 2
    /\ a[1] # b[1] /\ a[2] = b[2]

\* C6: a traversal from begin() to end() visits the indices 0, 1, ..., N-1 in
\* that order and a traversal from rbegin() to rend() visits N-1, ..., 1, 0;
\* neither takes more than N steps, each ends after exactly N, and each
\* starts at the same position whenever it is started.
C6_Traversal ==
    /\ cur.mode \in {"fwd", "fwd-done"} =>
           /\ Len(cur.visited) <= N
           /\ \A k \in 1..Len(cur.visited) : cur.visited[k] = k - 1
           /\ cur.fwd = it_plus(begin, Len(cur.visited))
    /\ cur.mode \in {"rev", "rev-done"} =>
           /\ Len(cur.visited) <= N
           /\ \A k \in 1..Len(cur.visited) : cur.visited[k] = N - k
    /\ cur.mode \in {"fwd-done", "rev-done"} => Len(cur.visited) = N
    /\ (cur.mode = "fwd" /\ N > 0 /\ cur.visited = <<>>) => it_deref(cur.fwd) = 0
    /\ (cur.mode = "rev" /\ N > 0 /\ cur.visited = <<>>) => rit_deref(cur.rev) = N - 1

C6_Witness ==
    /\ cur.mode = "rev-done" /\ N >= 2 /\ Len(cur.visited) = N
    /\ cur.visited[1] = N - 1 /\ cur.visited[N] = 0

\* C7: for N = 0, empty() is true, size() is 0, data() is null, and begin(),
\* end(), cbegin(), cend() are the default-constructed iterator, so that
\* begin() == end(), cbegin() == cend(), rbegin() == rend(), crbegin() == crend().
C7_ZeroLength ==
    (N = 0 /\ last.op = "observe") =>
        /\ last.obs.empty
        /\ last.obs.size = 0
        /\ last.obs.data = nullptr
        /\ last.obs.begin = iterator_default /\ last.obs.end = iterator_default
        /\ last.obs.cbegin = iterator_default /\ last.obs.cend = iterator_default
        /\ last.obs.fwd_eq /\ last.obs.cfwd_eq
        /\ last.obs.rev_eq /\ last.obs.crev_eq

C7_Witness == N = 0 /\ last.op = "observe"

\* C8: in every state size() and max_size() are N, the storage holds N
\* elements, and empty() is true exactly when N is 0.
C8_FixedCapacity ==
    /\ size = N /\ max_size = N /\ (empty <=> N = 0)
    /\ Len(a) = N /\ Len(b) = N
    /\ last.op = "observe" =>
           /\ last.obs.size = N /\ last.obs.max_size = N
           /\ last.obs.empty <=> (N = 0)

C8_Witness == last.op = "observe" /\ N >= 2 /\ ~last.obs.empty /\ a # b

====
